---- MODULE Spec2Model ----
(***************************************************************************)
(* Case pipeline of nexus-kyc-pro (src/index.js): the kyc_cases,           *)
(* companies, compliance_checks, documents, ubos and activity_log tables,  *)
(* the request handlers that write and read them, and the Handelsregister  *)
(* search.  Every handler is one action; the response it sends is kept in  *)
(* resp.  create_case is also given as two steps of a pool client, for     *)
(* requests that overlap, advance_step as its SELECT and its UPDATE, and   *)
(* the search as the request and the moment the registry call settles.     *)
(***************************************************************************)
EXTENDS Integers, Sequences, FiniteSets, TLC

\* ---------------------------------------------------------------- bounds
\* most rows the kyc_cases / companies / compliance_checks tables may hold, and
\* the longest activity log explored
MaxCases == 2
MaxCompanies == 2
MaxChecks == 7
MaxLog == 3
\* most requests to the external Handelsregister service explored
MaxCalls == 2
\* most rows the documents / ubos tables may hold
MaxDocs == 1
MaxUbos == 1

\* ---------------------------------------------------------------- inputs
NULL == 0
NoText == "null"

\* authenticated subjects (req.user.userId)
Users == {1, 2}
\* company_name values of a request body
CompanyNames == {NoText, "Acme GmbH"}
\* values `KYC-${Date.now()}-${random}` can take, as (time, suffix); with a
\* single value every create_case after the first successful one collides
CaseNumbers == {<<1, 7>>}
\* step values of a request body; 7 lies outside the six stages
StepInputs == {1, 3, 7}
\* status values of a step request body
StepStatusInputs == {"completed", "in_progress"}
\* (status, reason) pairs of a status request body
StatusInputs == {<<"completed", NoText>>, <<"rejected", "incomplete">>}
\* outcomes of the INSERT of logActivity that Spec explores (TRUE: the row
\* is written)
LogOutcomes == {TRUE}
\* check_types arrays of a screening request body
CheckTypeLists == {<<"pep", "crypto">>}
\* where the storage layer makes a statement of create_case fail
FailPoints == {"none", "company", "case", "checks"}

\* q of a search request; NoText: the request has no q parameter
Queries == {NoText, "", "ab", "abc", "Acme GmbH"}
\* values of Math.floor(Math.random() * 90000 + 10000)
HrbNumbers == {10000, 99999}
\* entries of the array the Handelsregister service answers with
ItemA ==
    [name |-> "Acme GmbH", firma |-> NoText, registration_number |-> "HRB 1",
     hrb |-> NoText, status |-> NoText]
ItemB ==
    [name |-> NoText, firma |-> "Acme Holding AG", registration_number |-> NoText,
     hrb |-> "HRB 2", status |-> "liquidation"]
\* what axios.get does: it throws (a network error, a status outside 2xx, the
\* timeout of 10 s) or it resolves with response.data of some shape
RegistryOutcomes ==
    {[kind |-> k, items |-> <<>>] : k \in {"error", "timeout", "null", "object"}}
    \cup {[kind |-> "array", items |-> a] : a \in {<<>>, <<ItemA>>, <<ItemA, ItemB>>}}

\* case numbers of the portfolio runs: two creates may or may not collide
PortfolioCaseNumbers == {<<1, 7>>, <<1, 8>>}
\* (status, reason) pairs of the portfolio runs
PortfolioStatusInputs ==
    {<<"active", NoText>>, <<"completed", NoText>>, <<"rejected", "incomplete">>}
\* check_types array of the portfolio runs
PortfolioCheckTypes == {<<"sanctions">>}
\* who uploads in the portfolio runs
Uploaders == {1}
\* clients of the pool: each runs the transaction of one create_case request
Connections == {1, 2}
\* advance_step requests that may be in flight at the same time
StepRequests == {1, 2}
\* search requests that may be in flight at the same time
SearchRequests == {1, 2}
\* what the registry call of a search in flight settles with
SettleOutcomes ==
    {[kind |-> k, items |-> <<>>] : k \in {"error", "timeout"}}
    \cup {[kind |-> "array", items |-> <<ItemA>>]}
\* status and risk_level of a list request; NoText: the parameter is left out
StatusFilters == {NoText, "active"}
RiskFilters == {NoText, "high"}
\* limit of a list request; NULL: the parameter is left out
LimitInputs == {NULL, 1}
\* const { status, risk_level, limit = 50 } = req.query
DefaultLimit == 50
\* whether the INSERT of an upload or of a UBO is accepted: it names a column
\* (documents.status, ubos.voting_rights) that the tables of initDB do not
\* have, so it is accepted only by a table kept from an earlier schema
\* (CREATE TABLE IF NOT EXISTS)
InsertOutcomes == {TRUE, FALSE}

SupportedCheckTypes == {"pep", "sanctions", "adverse_media"}
Stages == 1..6

VARIABLES companies, cases, checks, activity_log, resp,
          documents, ubos, registry_calls, open_tx, open_step, clients,
          searches

vars == <<companies, cases, checks, activity_log, resp,
          documents, ubos, registry_calls, open_tx, open_step, clients,
          searches>>

\* what the case handlers never write: the documents and ubos tables, the
\* requests sent to the external Handelsregister service, and the
\* transactions of create_case requests that run at the same time with the
\* pool clients they hold, the advance_step requests between their SELECT and
\* their UPDATE, and the searches that wait for the registry
side == <<documents, ubos, registry_calls, open_tx, open_step, clients,
          searches>>

\* the three tables a transaction of create_case writes
Db == [companies |-> companies, cases |-> cases, checks |-> checks]

Range(s) == {s[i] : i \in DOMAIN s}

\* Array.prototype.includes on an array of numbers
Includes(steps, step) == step \in Range(steps)

\* number of occurrences of x in the array
Count(steps, x) == Cardinality({i \in DOMAIN steps : steps[i] = x})

\* f with key k bound to v
Put(f, k, v) == [x \in DOMAIN f \cup {k} |-> IF x = k THEN v ELSE f[x]]

\* f without key k
Drop(f, k) == [x \in DOMAIN f \ {k} |-> f[x]]

EmptyTable == [x \in {} |-> NULL]

\* id SERIAL PRIMARY KEY: the id the next inserted row gets (a sequence value
\* drawn by a statement that failed or was rolled back is not kept apart: the
\* next row gets the first id no visible row has)
NextId(tbl) == Cardinality(DOMAIN tbl) + 1

Init ==
    /\ companies = EmptyTable
    /\ cases = EmptyTable
    /\ checks = EmptyTable
    /\ activity_log = <<>>
    /\ resp = [op |-> "none", id |-> NULL, code |-> 0, body |-> {}]
    /\ documents = EmptyTable
    /\ ubos = EmptyTable
    /\ registry_calls = <<>>
    /\ open_tx = EmptyTable
    /\ open_step = EmptyTable
    /\ clients = EmptyTable
    /\ searches = EmptyTable

\* logActivity: one INSERT into activity_log; an error of the INSERT is caught
\* and only printed
LogActivity(log, userId, action, entityId, data, logOk) ==
    IF logOk
    THEN Append(log, [user_id |-> userId, action |-> action, entity_id |-> entityId,
                      new_values |-> data])
    ELSE log

\* ------------------------------------------------------- POST /api/cases
\* INSERT INTO companies ... RETURNING id, inside the transaction
InsertCompany(db, id, userId, name) ==
    [db EXCEPT !.companies = Put(@, id,
        [id |-> id, user_id |-> userId, name |-> name,
         registration_number |-> "HRB", legal_form |-> "GmbH",
         city |-> "Berlin", status |-> "pending", risk_level |-> "low"])]

\* INSERT INTO kyc_cases ... RETURNING *: the columns the handler passes and
\* the defaults of the schema for the ones it leaves out
NewCaseRow(id, userId, companyId, caseNumber) ==
    [id |-> id, user_id |-> userId, company_id |-> companyId,
     case_number |-> caseNumber, status |-> "pending", risk_level |-> "medium",
     current_step |-> 1, steps_completed |-> <<1>>,
     step_status |-> Put(EmptyTable, 1, "in_progress"),
     rejection_reason |-> NoText, completed_at |-> FALSE]

InsertCase(db, row) == [db EXCEPT !.cases = Put(@, row.id, row)]

\* the constraints of kyc_cases an INSERT can violate: case_number UNIQUE and
\* company_id REFERENCES companies(id)
\* Date.now() does not run backwards: the time in a new case number is not
\* before the time in the number of any case created earlier
ClockAllows(tbl, caseNumber) ==
    \A c \in DOMAIN tbl : tbl[c].case_number[1] <= caseNumber[1]

CaseInsertRejected(db, row) ==
    \/ \E c \in DOMAIN db.cases : db.cases[c].case_number = row.case_number
    \/ row.company_id # NULL /\ row.company_id \notin DOMAIN db.companies

\* INSERT INTO compliance_checks ... VALUES ($1,'pep','pending'), ...
InitialCheckTypes == <<"pep", "sanctions", "adverse_media">>

CheckStub(id, caseId, checkType) ==
    [id |-> id, case_id |-> caseId, check_type |-> checkType,
     status |-> "pending", risk_score |-> NULL]

InsertInitialChecks(db, firstId, caseId) ==
    [db EXCEPT !.checks =
        [x \in DOMAIN @ \cup {firstId + i - 1 : i \in DOMAIN InitialCheckTypes} |->
            IF x \in DOMAIN @ THEN @[x]
            ELSE CheckStub(x, caseId, InitialCheckTypes[x - firstId + 1])]]

\* a rollback that undoes nothing: every statement committed on its own
RollbackKeepsWrites(before, tx) == tx

\* the catch branch: ROLLBACK on the client that ran every statement
Rollback(before, tx) == before

\* COMMIT
Commit(before, tx) == tx

\* a log call placed before COMMIT: its INSERT runs on the pool, outside the
\* transaction, and stays when the transaction is rolled back
LoggedBeforeCommit(failed, log, entry) == entry

\* logActivity is awaited after COMMIT, inside the try: a statement that
\* throws jumps to the catch branch and the log call is never reached
LoggedAfterCommit(failed, log, entry) == IF failed THEN log ELSE entry

CreateCase(u, company_id, company_name, caseNumber, failAt, logOk) ==
    LET createCompany == company_id = NULL /\ company_name # NoText
        companyFails == createCompany /\ failAt = "company"
        tx1 == IF createCompany /\ ~companyFails
               THEN InsertCompany(Db, NextId(companies), u, company_name)
               ELSE Db
        finalCompanyId == IF createCompany THEN NextId(companies) ELSE company_id
        row == NewCaseRow(NextId(cases), u, finalCompanyId, caseNumber)
        caseFails == ~companyFails /\ (failAt = "case" \/ CaseInsertRejected(tx1, row))
        tx2 == IF companyFails \/ caseFails THEN tx1 ELSE InsertCase(tx1, row)
        checksFail == ~companyFails /\ ~caseFails /\ failAt = "checks"
        tx3 == IF companyFails \/ caseFails \/ checksFail THEN tx2
               ELSE InsertInitialChecks(tx2, NextId(checks), row.id)
        failed == companyFails \/ caseFails \/ checksFail
        final == IF failed THEN Rollback(Db, tx3) ELSE Commit(Db, tx3)
    IN  /\ failAt = "company" => createCompany
        /\ ClockAllows(cases, caseNumber)
        /\ NextId(cases) <= MaxCases
        /\ NextId(companies) <= MaxCompanies
        /\ NextId(checks) + 2 <= MaxChecks
        /\ Len(activity_log) < MaxLog
        /\ companies' = final.companies
        /\ cases' = final.cases
        /\ checks' = final.checks
        /\ activity_log' =
              LoggedAfterCommit(failed, activity_log,
                  LogActivity(activity_log, u, "CASE_CREATED", row.id,
                              [caseNumber |-> caseNumber,
                               companyId |-> finalCompanyId], logOk))
        /\ resp' = [op |-> "create",
                    id |-> IF failed THEN NULL ELSE row.id,
                    code |-> IF failed THEN 500 ELSE 200,
                    body |-> IF failed THEN {} ELSE {row}]
        /\ UNCHANGED side

\* --------------------- POST /api/cases, two requests at the same time
\* an index that lets an INSERT pass while another transaction holds the
\* same case_number uncommitted
NeverWaits(txs, conn, caseNumber) == FALSE

\* case_number UNIQUE: the INSERT waits while another open transaction has
\* inserted the same case_number and not yet committed or rolled back
WaitsForNumber(txs, conn, caseNumber) ==
    \E other \in DOMAIN txs \ {conn} : txs[other].case_number = caseNumber

\* a finally block that is skipped when the catch branch throws
ReleaseUnlessRollbackFails(n, rollbackOk) == IF rollbackOk THEN n + 1 ELSE n

\* finally { client.release(); }: runs once on every way out of the try and of
\* the catch branch, also when the ROLLBACK of the catch branch throws
Release(n, rollbackOk) == n + 1

\* BEGIN, the company INSERT and the kyc_cases INSERT of one request: the
\* rows are not visible to other clients until COMMIT (the ids of its rows
\* are not visible either, and are given when the rows become visible)
BeginCreate(conn, u, company_id, company_name, caseNumber) ==
    LET row == NewCaseRow(NextId(cases), u, company_id, caseNumber)
        rejected == CaseInsertRejected(Db, row)
    IN  /\ conn \notin DOMAIN open_tx
        /\ ClockAllows(cases, caseNumber)
        /\ ~WaitsForNumber(open_tx, conn, caseNumber)
        /\ open_tx' = IF rejected THEN open_tx
                      ELSE Put(open_tx, conn,
                               [user_id |-> u, company_id |-> company_id,
                                company_name |-> company_name,
                                case_number |-> caseNumber])
        \* res.status(500).json({ error: e.message })
        /\ resp' = IF rejected
                   THEN [op |-> "create", id |-> NULL, code |-> 500,
                         body |-> {[error |->
                             IF \E c \in DOMAIN cases :
                                    cases[c].case_number = caseNumber
                             THEN "unique_violation"
                             ELSE "foreign_key_violation"]}]
                   ELSE resp
        \* const client = await pool.connect(); a rejected INSERT reaches the
        \* catch branch (ROLLBACK) and then finally (release)
        /\ clients' = Put(clients, conn,
                          IF rejected
                          THEN [releases |-> Release(0, TRUE), rollback |-> "done"]
                          ELSE [releases |-> 0, rollback |-> "none"])
        /\ UNCHANGED <<companies, cases, checks, activity_log, documents, ubos,
                       registry_calls, open_step, searches>>

\* the compliance_checks INSERT and COMMIT of an open request, or the
\* ROLLBACK of its catch branch
FinishCreate(conn, failAt, logOk) ==
    /\ conn \in DOMAIN open_tx
    /\ LET tx == open_tx[conn]
           createCompany == tx.company_id = NULL /\ tx.company_name # NoText
           tx1 == IF createCompany
                  THEN InsertCompany(Db, NextId(companies), tx.user_id, tx.company_name)
                  ELSE Db
           finalCompanyId == IF createCompany THEN NextId(companies)
                             ELSE tx.company_id
           row == NewCaseRow(NextId(cases), tx.user_id, finalCompanyId,
                             tx.case_number)
           tx2 == InsertCase(tx1, row)
           failed == failAt \in {"checks", "rollback"}
           \* "rollback": the checks INSERT fails and the ROLLBACK of the catch
           \* branch throws too (the connection is gone; the server drops
           \* the transaction), so the handler sends no response
           rollbackOk == failAt # "rollback"
           tx3 == IF failed THEN tx2
                  ELSE InsertInitialChecks(tx2, NextId(checks), row.id)
           final == IF failed THEN Rollback(Db, tx3) ELSE Commit(Db, tx3)
       IN  /\ NextId(cases) <= MaxCases
           /\ NextId(companies) <= MaxCompanies
           /\ NextId(checks) + 2 <= MaxChecks
           /\ Len(activity_log) < MaxLog
           /\ companies' = final.companies
           /\ cases' = final.cases
           /\ checks' = final.checks
           /\ activity_log' =
                 LoggedAfterCommit(failed, activity_log,
                     LogActivity(activity_log, tx.user_id, "CASE_CREATED", row.id,
                                 [caseNumber |-> tx.case_number,
                                  companyId |-> finalCompanyId], logOk))
           /\ resp' = IF ~rollbackOk THEN resp
                      ELSE [op |-> "create",
                            id |-> IF failed THEN NULL ELSE row.id,
                            code |-> IF failed THEN 500 ELSE 200,
                            body |-> IF failed THEN {} ELSE {row}]
           /\ clients' = [clients EXCEPT ![conn] =
                             [releases |-> Release(@.releases, rollbackOk),
                              rollback |-> IF ~failed THEN "none"
                                           ELSE IF rollbackOk THEN "done"
                                           ELSE "failed"]]
    /\ open_tx' = Drop(open_tx, conn)
    /\ UNCHANGED <<documents, ubos, registry_calls, open_step, searches>>

\* ------------------------------------------- PATCH /api/cases/:id/step
\* a SELECT that leaves out the user_id condition
SelectCaseAnyOwner(tbl, caseId, userId) == {id \in DOMAIN tbl : id = caseId}

\* SELECT steps_completed, step_status FROM kyc_cases
\*   WHERE id = $1 AND user_id = $2
SelectCaseForStep(tbl, caseId, userId) ==
    {id \in DOMAIN tbl : id = caseId /\ tbl[id].user_id = userId}

\* a push without the includes() test
PushStepAlways(steps, step, status) ==
    IF status = "completed" THEN Append(steps, step) ELSE steps

\* if (status === 'completed' && !steps.includes(step)) steps.push(step)
PushStep(steps, step, status) ==
    IF status = "completed" /\ ~Includes(steps, step)
    THEN Append(steps, step)
    ELSE steps

\* stepStatus[step] = status, then JSON.stringify: a key whose value is
\* undefined (no status in the body) is left out of the stored object
SetStepStatus(stepStatus, step, status) ==
    IF status = NoText THEN Drop(stepStatus, step) ELSE Put(stepStatus, step, status)

\* an update that never moves current_step backwards
UpdateStepForwardOnly(row, step, steps, stepStatus) ==
    [row EXCEPT !.current_step = IF step > @ THEN step ELSE @,
                !.steps_completed = steps, !.step_status = stepStatus]

\* an update that also puts the case back to "active"
UpdateStepReopens(row, step, steps, stepStatus) ==
    [row EXCEPT !.current_step = step, !.steps_completed = steps,
                !.step_status = stepStatus, !.status = "active"]

\* UPDATE kyc_cases SET current_step = $1, steps_completed = $2,
\*   step_status = $3 ... WHERE id = $4 RETURNING *
UpdateStep(row, step, steps, stepStatus) ==
    [row EXCEPT !.current_step = step, !.steps_completed = steps,
                !.step_status = stepStatus]

AdvanceStep(u, caseId, step, status, logOk) ==
    LET current == SelectCaseForStep(cases, caseId, u)
    IN  IF current = {}
        THEN /\ resp' = [op |-> "step", id |-> caseId, code |-> 404,
                         body |-> {}]
             /\ UNCHANGED <<companies, cases, checks, activity_log, side>>
        ELSE LET steps == PushStep(cases[caseId].steps_completed, step, status)
                 stepStatus == SetStepStatus(cases[caseId].step_status, step, status)
                 row == UpdateStep(cases[caseId], step, steps, stepStatus)
             IN  /\ Len(activity_log) < MaxLog
                 /\ cases' = [cases EXCEPT ![caseId] = row]
                 /\ activity_log' = LogActivity(activity_log, u, "CASE_STEP_UPDATED",
                                                caseId,
                                                [step |-> step, status |-> status],
                                                logOk)
                 /\ resp' = [op |-> "step", id |-> caseId, code |-> 200,
                             body |-> {row}]
                 /\ UNCHANGED <<companies, checks, side>>

\* an UPDATE that starts from the arrays the row holds when it runs
StepsNow(req, row) == [steps |-> row.steps_completed, stepStatus |-> row.step_status]

\* const steps = current.rows[0].steps_completed || []; const stepStatus =
\* current.rows[0].step_status || {}: the UPDATE starts from what the
\* request's own SELECT returned
StepsRead(req, row) == [steps |-> req.steps, stepStatus |-> req.stepStatus]

\* the SELECT of one advance_step request; other requests may run before its
\* UPDATE (no transaction, no row lock)
ReadStep(r, u, caseId, step, status) ==
    LET current == SelectCaseForStep(cases, caseId, u)
    IN  /\ r \notin DOMAIN open_step
        /\ open_step' = IF current = {} THEN open_step
                        ELSE Put(open_step, r,
                                 [user_id |-> u, case_id |-> caseId, step |-> step,
                                  status |-> status,
                                  steps |-> cases[caseId].steps_completed,
                                  stepStatus |-> cases[caseId].step_status])
        /\ resp' = IF current = {}
                   THEN [op |-> "step", id |-> caseId, code |-> 404, body |-> {}]
                   ELSE resp
        /\ UNCHANGED <<companies, cases, checks, activity_log, documents, ubos,
                       registry_calls, open_tx, clients, searches>>

\* the UPDATE ... WHERE id = $4, the log entry and the response of a request
\* whose SELECT found the case
WriteStep(r, logOk) ==
    /\ r \in DOMAIN open_step
    /\ LET req == open_step[r]
           base == StepsRead(req, cases[req.case_id])
           steps == PushStep(base.steps, req.step, req.status)
           stepStatus == SetStepStatus(base.stepStatus, req.step, req.status)
           row == UpdateStep(cases[req.case_id], req.step, steps, stepStatus)
       IN  /\ Len(activity_log) < MaxLog
           /\ cases' = [cases EXCEPT ![req.case_id] = row]
           /\ activity_log' = LogActivity(activity_log, req.user_id,
                                          "CASE_STEP_UPDATED", req.case_id,
                                          [step |-> req.step, status |-> req.status],
                                          logOk)
           /\ resp' = [op |-> "step", id |-> req.case_id, code |-> 200,
                       body |-> {row}]
    /\ open_step' = Drop(open_step, r)
    /\ UNCHANGED <<companies, checks, documents, ubos, registry_calls, open_tx,
                   clients, searches>>

\* ----------------------------------------- PATCH /api/cases/:id/status
\* the rows UPDATE kyc_cases ... WHERE id = $3 AND user_id = $4 touches
SelectCaseForStatus(tbl, caseId, userId) ==
    {id \in DOMAIN tbl : id = caseId /\ tbl[id].user_id = userId}

\* an update that clears completed_at for every other status
UpdateStatusClearsStamp(row, status, reason) ==
    [row EXCEPT !.status = status, !.rejection_reason = reason,
                !.completed_at = (status = "completed")]

\* an update that appends a repeated reason to the stored one
UpdateStatusAppendsReason(row, status, reason) ==
    [row EXCEPT !.status = status,
                !.rejection_reason = IF @ = NoText \/ reason = NoText THEN reason
                                     ELSE "incomplete; incomplete",
                !.completed_at = IF status = "completed" THEN TRUE ELSE @]

\* SET status = $1, rejection_reason = $2,
\*   ${status === 'completed' ? 'completed_at = CURRENT_TIMESTAMP,' : ''}
UpdateStatus(row, status, reason) ==
    [row EXCEPT !.status = status, !.rejection_reason = reason,
                !.completed_at = IF status = "completed" THEN TRUE ELSE @]

SetStatus(u, caseId, status, reason) ==
    LET hit == SelectCaseForStatus(cases, caseId, u)
    IN  IF hit = {}
        THEN /\ resp' = [op |-> "status", id |-> caseId, code |-> 404,
                         body |-> {}]
             /\ UNCHANGED <<companies, cases, checks, activity_log, side>>
        ELSE LET row == UpdateStatus(cases[caseId], status, reason)
             IN  /\ cases' = [cases EXCEPT ![caseId] = row]
                 /\ resp' = [op |-> "status", id |-> caseId, code |-> 200,
                             body |-> {row}]
                 /\ UNCHANGED <<companies, checks, activity_log, side>>

\* ------------------------------------------------- GET /api/cases/:id
\* a join that leaves out the kc.user_id condition
SelectDetailAnyOwner(tbl, caseId, userId) == {id \in DOMAIN tbl : id = caseId}

\* SELECT kc.*, c.* FROM kyc_cases kc LEFT JOIN companies c ...
\*   WHERE kc.id = $1 AND kc.user_id = $2
SelectCaseDetail(tbl, caseId, userId) ==
    {id \in DOMAIN tbl : id = caseId /\ tbl[id].user_id = userId}

\* the columns of c.*; without a joined company every one of them is NULL
CompanyColumns ==
    {"id", "user_id", "name", "registration_number", "legal_form", "city",
     "status", "risk_level"}

NullCompany ==
    [id |-> NULL, user_id |-> NULL, name |-> NoText,
     registration_number |-> NoText, legal_form |-> NoText, city |-> NoText,
     status |-> NoText, risk_level |-> NoText]

\* the row object of kc.*, c.*: of two columns with one name the later one
\* (the company's) is the one the object keeps
JoinedRow(caseRow, tbl) ==
    LET c == IF caseRow.company_id \in DOMAIN tbl THEN tbl[caseRow.company_id]
             ELSE NullCompany
    IN  [f \in DOMAIN caseRow \cup CompanyColumns |->
            IF f \in CompanyColumns THEN c[f] ELSE caseRow[f]]

\* SELECT * FROM compliance_checks WHERE case_id = $1
ChecksOfCase(tbl, caseId) == {tbl[k] : k \in {x \in DOMAIN tbl : tbl[x].case_id = caseId}}

\* the response of the handler: 404 when the SELECT returns no row, else
\* the joined row with the related collections
DetailResponse(u, caseId) ==
    IF SelectCaseDetail(cases, caseId, u) = {}
    THEN [op |-> "detail", id |-> caseId, code |-> 404, body |-> {}]
    ELSE [op |-> "detail", id |-> caseId, code |-> 200,
          body |-> {[caseData |-> JoinedRow(cases[caseId], companies),
                     complianceChecks |-> ChecksOfCase(checks, caseId)]}]

\* a handler that records every successful view in the activity log
GetCaseDetailLogsView(u, caseId) ==
    /\ resp' = DetailResponse(u, caseId)
    /\ activity_log' = IF DetailResponse(u, caseId).code = 200
                            /\ Len(activity_log) < MaxLog
                       THEN LogActivity(activity_log, u, "CASE_VIEWED", caseId,
                                        [caseNumber |-> cases[caseId].case_number,
                                         companyId |-> cases[caseId].company_id], TRUE)
                       ELSE activity_log
    /\ UNCHANGED <<companies, cases, checks, side>>

GetCaseDetail(u, caseId) ==
    /\ resp' = DetailResponse(u, caseId)
    /\ UNCHANGED <<companies, cases, checks, activity_log, side>>

\* ------------------------------------------ POST /api/compliance/screen
\* the row one pass of the loop inserts: the simulated screening is always
\* clear with risk_score 0
ScreenedCheck(id, caseId, checkType) ==
    [id |-> id, case_id |-> caseId, check_type |-> checkType,
     status |-> "clear", risk_score |-> 0]

RECURSIVE InsertScreened(_, _, _, _)
InsertScreened(tbl, firstId, caseId, types) ==
    IF types = <<>> THEN tbl
    ELSE InsertScreened(Put(tbl, firstId, ScreenedCheck(firstId, caseId, Head(types))),
                        firstId + 1, caseId, Tail(types))

Screen(u, caseId, check_types) ==
    LET n == Len(check_types)
        \* compliance_checks.case_id REFERENCES kyc_cases(id)
        rejected == caseId \notin DOMAIN cases
        first == NextId(checks)
        after == InsertScreened(checks, first, caseId, check_types)
    IN  /\ first + n - 1 <= MaxChecks
        /\ checks' = IF rejected THEN checks ELSE after
        /\ resp' = IF rejected
                   THEN [op |-> "screen", id |-> caseId, code |-> 500,
                         body |-> {}]
                   ELSE [op |-> "screen", id |-> caseId, code |-> 200,
                         body |-> {after[k] : k \in first..(first + n - 1)}]
        /\ UNCHANGED <<companies, cases, activity_log, side>>

\* --------------------------------------------- POST /api/documents
UploadDocument(u, caseId, hasFile, insertOk) ==
    LET id == NextId(documents)
        \* documents.case_id REFERENCES kyc_cases(id)
        rejected == ~insertOk \/ caseId \notin DOMAIN cases
        row == [id |-> id, case_id |-> caseId, user_id |-> u, status |-> "processed"]
    IN  /\ id <= MaxDocs
        /\ documents' = IF ~hasFile \/ rejected THEN documents
                        ELSE Put(documents, id, row)
        /\ resp' = IF ~hasFile
                   THEN [op |-> "document", id |-> caseId, code |-> 400, body |-> {}]
                   ELSE IF rejected
                   THEN [op |-> "document", id |-> caseId, code |-> 500, body |-> {}]
                   ELSE [op |-> "document", id |-> caseId, code |-> 200,
                         body |-> {row}]
        /\ UNCHANGED <<companies, cases, checks, activity_log, ubos, registry_calls,
                       open_tx, open_step, clients, searches>>

\* -------------------------------------------------- POST /api/ubos
CreateUbo(u, companyId, caseId, insertOk) ==
    LET id == NextId(ubos)
        \* ubos.company_id REFERENCES companies(id), ubos.case_id REFERENCES
        \* kyc_cases(id); both may be NULL
        rejected == \/ ~insertOk
                    \/ companyId # NULL /\ companyId \notin DOMAIN companies
                    \/ caseId # NULL /\ caseId \notin DOMAIN cases
        row == [id |-> id, company_id |-> companyId, case_id |-> caseId,
                is_pep |-> FALSE]
    IN  /\ id <= MaxUbos
        /\ ubos' = IF rejected THEN ubos ELSE Put(ubos, id, row)
        /\ resp' = IF rejected
                   THEN [op |-> "ubo", id |-> caseId, code |-> 500, body |-> {}]
                   ELSE [op |-> "ubo", id |-> caseId, code |-> 200, body |-> {row}]
        /\ UNCHANGED <<companies, cases, checks, activity_log, documents,
                       registry_calls, open_tx, open_step, clients, searches>>

\* ------------------------------------------ GET /api/dashboard/stats
\* COUNT(*) reaches the handler as a decimal string
PgCount(n) == [text |-> n]

ParseInt(c) == c.text

\* a JavaScript number, where a field holds either a number or a count string
Num(n) == [num |-> n]

\* SELECT status, COUNT(*) as count FROM kyc_cases WHERE user_id = $1
\*   GROUP BY status
CasesByStatus(u) ==
    LET mine == {c \in DOMAIN cases : cases[c].user_id = u}
    IN  [s \in {cases[c].status : c \in mine} |->
            PgCount(Cardinality({c \in mine : cases[c].status = s}))]

\* casesResult.rows.reduce((a, r) => a + parseInt(r.count), 0)
RECURSIVE SumCounts(_)
SumCounts(rows) ==
    IF DOMAIN rows = {} THEN 0
    ELSE LET s == CHOOSE x \in DOMAIN rows : TRUE
         IN  ParseInt(rows[s]) + SumCounts(Drop(rows, s))

\* casesResult.rows.find(r => r.status === s)?.count || 0
CountOrZero(rows, s) == IF s \in DOMAIN rows THEN rows[s] ELSE Num(0)

\* the number a count stands for in an arithmetic expression
ToNumber(c) == IF "num" \in DOMAIN c THEN c.num ELSE ParseInt(c)

\* a rate computed without looking at the total: 0 / 0 is NaN, written -1
CompletionRateUnguarded(completed, total) ==
    IF total = 0 THEN -1
    ELSE (200 * ToNumber(completed) + total) \div (2 * total)

\* totalCases > 0 ? Math.round((completedCases / totalCases) * 100) : 0
CompletionRate(completed, total) ==
    IF total > 0
    THEN (200 * ToNumber(completed) + total) \div (2 * total)
    ELSE 0

\* a count of the pending checks of every owner
PendingChecksAllOwners(u) ==
    Cardinality({k \in DOMAIN checks : checks[k].status = "pending"})

\* SELECT COUNT(*) as total FROM compliance_checks cc
\*   JOIN kyc_cases kc ON cc.case_id = kc.id
\*   WHERE kc.user_id = $1 AND cc.status = 'pending'
PendingChecks(u) ==
    Cardinality({kc \in (DOMAIN checks) \X (DOMAIN cases) :
                    /\ checks[kc[1]].case_id = kc[2]
                    /\ cases[kc[2]].user_id = u
                    /\ checks[kc[1]].status = "pending"})

\* the overview object and casesByStatus of the response (recentCases, the
\* five newest cases, is left out)
OverviewResponse(u) ==
    LET rows == CasesByStatus(u)
        totalCases == SumCounts(rows)
        completedCases == CountOrZero(rows, "completed")
    IN  [op |-> "overview", id |-> NULL, code |-> 200,
         body |-> {[totalCases |-> totalCases,
                    activeCases |-> CountOrZero(rows, "active"),
                    pendingCases |-> CountOrZero(rows, "pending"),
                    completedCases |-> completedCases,
                    completionRate |-> CompletionRate(completedCases, totalCases),
                    totalCompanies |->
                        ParseInt(PgCount(Cardinality(
                            {c \in DOMAIN companies : companies[c].user_id = u}))),
                    pendingChecks |-> ParseInt(PgCount(PendingChecks(u))),
                    highRiskCases |->
                        ParseInt(PgCount(Cardinality(
                            {c \in DOMAIN cases : /\ cases[c].user_id = u
                                                  /\ cases[c].risk_level = "high"}))),
                    casesByStatus |-> rows]}]

GetOverview(u) ==
    /\ resp' = OverviewResponse(u)
    /\ UNCHANGED <<companies, cases, checks, activity_log, side>>

\* ---------------------------------------------------- GET /api/cases
\* a WHERE clause without the status condition
MatchingIgnoresStatus(u, status, risk) ==
    {c \in DOMAIN cases :
        /\ cases[c].user_id = u
        /\ risk = NoText \/ cases[c].risk_level = risk}

\* WHERE kc.user_id = $1 [AND kc.status = $2] [AND kc.risk_level = $3]
MatchingCases(u, status, risk) ==
    {c \in DOMAIN cases :
        /\ cases[c].user_id = u
        /\ status = NoText \/ cases[c].status = status
        /\ risk = NoText \/ cases[c].risk_level = risk}

\* created_at DEFAULT CURRENT_TIMESTAMP: cases are inserted one transaction
\* after the other, so a case with a larger id was created later
CreatedAt(c) == c

\* ORDER BY kc.created_at DESC
RECURSIVE NewestFirst(_)
NewestFirst(ids) ==
    IF ids = {} THEN <<>>
    ELSE LET newest == CHOOSE c \in ids : \A d \in ids : CreatedAt(d) <= CreatedAt(c)
         IN  <<newest>> \o NewestFirst(ids \ {newest})

\* LIMIT $n, with limit = 50 when the request has none
LimitRows(rows, limit) ==
    LET n == IF limit = NULL THEN DefaultLimit ELSE limit
    IN  SubSeq(rows, 1, IF n < Len(rows) THEN n ELSE Len(rows))

\* kc.*, c.name as company_name, c.registration_number, and the two counts
ListRow(c) ==
    LET co == IF cases[c].company_id \in DOMAIN companies
              THEN companies[cases[c].company_id] ELSE NullCompany
        extra == [company_name |-> co.name,
                  registration_number |-> co.registration_number,
                  document_count |->
                      PgCount(Cardinality({d \in DOMAIN documents :
                                              documents[d].case_id = c})),
                  ubo_count |->
                      PgCount(Cardinality({b \in DOMAIN ubos : ubos[b].case_id = c}))]
    IN  [f \in DOMAIN cases[c] \cup DOMAIN extra |->
            IF f \in DOMAIN extra THEN extra[f] ELSE cases[c][f]]

ListResponse(u, status, risk, limit) ==
    LET ids == LimitRows(NewestFirst(MatchingCases(u, status, risk)), limit)
    IN  [op |-> "list", id |-> NULL, code |-> 200,
         body |-> {[i \in DOMAIN ids |-> ListRow(ids[i])]}]

ListCases(u, status, risk, limit) ==
    /\ resp' = ListResponse(u, status, risk, limit)
    /\ UNCHANGED <<companies, cases, checks, activity_log, side>>

\* ------------------------- GET /api/companies/search-handelsregister
\* a test that only looks for a missing query
QueryRejectedIfMissing(q) == q = NoText

\* if (!q || q.length < 3)
QueryRejected(q) == q = NoText \/ Len(q) < 3

\* a check that accepts every array, the empty one too
AnyArrayUsable(data) == data.kind = "array"

\* response.data && Array.isArray(response.data) && response.data.length > 0
UsableRegistryData(data) == data.kind = "array" /\ Len(data.items) > 0

\* a || b on two optional strings
OrElse(a, b) == IF a # NoText THEN a ELSE b

\* one entry of response.data.map(item => ...)
FormatItem(item) ==
    [name |-> OrElse(item.name, item.firma),
     registration_number |-> OrElse(item.registration_number, item.hrb),
     country |-> "DE", status |-> OrElse(item.status, "active"),
     source |-> "handelsregister_api"]

\* mockResults: one entry made from the query and two random numbers
MockResults(q, r1, r2) ==
    << [name |-> q, registration_number |-> <<"HRB", r1>>,
        country |-> "DE", status |-> "active",
        register_number |-> <<"HRB ", r2>>, source |-> "demo"] >>

SearchResponse(q, outcome, r1, r2) ==
    IF QueryRejected(q)
    THEN [op |-> "search", id |-> NULL, code |-> 400, body |-> {}]
    ELSE IF outcome.kind \notin {"error", "timeout"} /\ UsableRegistryData(outcome)
    THEN [op |-> "search", id |-> NULL, code |-> 200,
          body |-> {[success |-> TRUE, source |-> "handelsregister_api",
                     count |-> Len(outcome.items),
                     results |-> [i \in DOMAIN outcome.items |->
                                     FormatItem(outcome.items[i])]]}]
    ELSE [op |-> "search", id |-> NULL, code |-> 200,
          body |-> {[success |-> TRUE, source |-> "demo",
                     count |-> Len(MockResults(q, r1, r2)),
                     results |-> MockResults(q, r1, r2)]}]

\* registry_calls keeps every request sent to the service with what came back
SearchHandelsregister(q, outcome, r1, r2) ==
    /\ ~QueryRejected(q) => Len(registry_calls) < MaxCalls
    /\ registry_calls' = IF QueryRejected(q) THEN registry_calls
                         ELSE Append(registry_calls, [q |-> q, reply |-> outcome])
    /\ resp' = SearchResponse(q, outcome, r1, r2)
    /\ UNCHANGED <<companies, cases, checks, activity_log, documents, ubos,
                   open_tx, open_step, clients, searches>>

\* a catch branch that sends nothing when the request timed out
RepliesUnlessTimeout(n, outcome) == IF outcome.kind = "timeout" THEN n ELSE n + 1

\* return res.json(...) in the try, res.json(...) in the catch branch and
\* res.json(...) after the try: one of the three runs
Replies(n, outcome) == n + 1

\* the request: a query that fails the test is answered at once, any other
\* sends axios.get(..., { timeout: 10000 }) and waits
StartSearch(r, q) ==
    /\ r \in DOMAIN searches => searches[r].settled
    /\ ~QueryRejected(q) =>
           Len(registry_calls)
             + Cardinality({x \in DOMAIN searches : ~searches[x].settled}) < MaxCalls
    /\ searches' = IF QueryRejected(q) THEN searches
                   ELSE Put(searches, r, [q |-> q, settled |-> FALSE, replies |-> 0])
    /\ resp' = IF QueryRejected(q) THEN SearchResponse(q, NULL, NULL, NULL)
               ELSE resp
    /\ UNCHANGED <<companies, cases, checks, activity_log, documents, ubos,
                   registry_calls, open_tx, open_step, clients>>

\* the awaited call settles: the registry answers, the request fails, or the
\* 10 s timeout of axios rejects it
SettleSearch(r, outcome, r1, r2) ==
    /\ r \in DOMAIN searches
    /\ ~searches[r].settled
    /\ registry_calls' = Append(registry_calls,
                                [q |-> searches[r].q, reply |-> outcome])
    /\ resp' = SearchResponse(searches[r].q, outcome, r1, r2)
    /\ searches' = [searches EXCEPT ![r].settled = TRUE,
                                    ![r].replies = Replies(@, outcome)]
    /\ UNCHANGED <<companies, cases, checks, activity_log, documents, ubos,
                   open_tx, open_step, clients>>

Next ==
    \/ \E u \in Users, cid \in 0..MaxCompanies, name \in CompanyNames,
          num \in CaseNumbers, f \in FailPoints, logOk \in LogOutcomes :
            CreateCase(u, cid, name, num, f, logOk)
    \/ \E u \in Users, id \in 1..MaxCases, step \in StepInputs,
          status \in StepStatusInputs, logOk \in LogOutcomes :
            AdvanceStep(u, id, step, status, logOk)
    \/ \E u \in Users, id \in 1..MaxCases, sr \in StatusInputs :
            SetStatus(u, id, sr[1], sr[2])
    \/ \E u \in Users, id \in 1..MaxCases : GetCaseDetail(u, id)
    \/ \E u \in Users, id \in 1..MaxCases, types \in CheckTypeLists :
            Screen(u, id, types)

Spec == Init /\ [][Next]_vars

\* two owners with their cases and checks, and the dashboard; the activity
\* log is left out (its INSERT fails)
NextOverview ==
    \/ \E u \in Users, num \in PortfolioCaseNumbers :
            CreateCase(u, NULL, "Acme GmbH", num, "none", FALSE)
    \/ \E u \in Users, id \in 1..MaxCases, sr \in PortfolioStatusInputs :
            SetStatus(u, id, sr[1], sr[2])
    \/ \E u \in Users, id \in 1..MaxCases, types \in PortfolioCheckTypes :
            Screen(u, id, types)
    \/ \E u \in Users : GetOverview(u)

SpecOverview == Init /\ [][NextOverview]_vars

\* two owners with their cases, documents and UBOs, and the case list
NextList ==
    \/ \E u \in Users, num \in PortfolioCaseNumbers :
            CreateCase(u, NULL, "Acme GmbH", num, "none", FALSE)
    \/ \E u \in Users, id \in 1..MaxCases : SetStatus(u, id, "active", NoText)
    \/ \E u \in Uploaders, id \in 1..MaxCases, hasFile \in BOOLEAN,
          ok \in InsertOutcomes : UploadDocument(u, id, hasFile, ok)
    \/ \E u \in Users, id \in 1..MaxCases, ok \in InsertOutcomes :
            CreateUbo(u, NULL, id, ok)
    \/ \E u \in Users, status \in StatusFilters, risk \in RiskFilters,
          limit \in LimitInputs : ListCases(u, status, risk, limit)

SpecList == Init /\ [][NextList]_vars

\* create_case requests that overlap, with the handlers that write a case
NextConcurrent ==
    \/ \E conn \in Connections, u \in Users, num \in PortfolioCaseNumbers :
            BeginCreate(conn, u, NULL, NoText, num)
    \/ \E conn \in Connections, f \in {"none", "checks"} :
            FinishCreate(conn, f, FALSE)
    \/ \E u \in Users, id \in 1..MaxCases : AdvanceStep(u, id, 3, "completed", FALSE)
    \/ \E u \in Users, id \in 1..MaxCases : SetStatus(u, id, "completed", NoText)
    \/ \E u \in Users, id \in 1..MaxCases, types \in PortfolioCheckTypes :
            Screen(u, id, types)

SpecConcurrent == Init /\ [][NextConcurrent]_vars

\* two owners who create cases for companies by id or by name, with the log
\* INSERT failing or not, the screening and the two handlers that read a case
NextLink ==
    \/ \E u \in Users, cid \in 0..MaxCompanies, name \in CompanyNames,
          num \in PortfolioCaseNumbers, f \in FailPoints, logOk \in BOOLEAN :
            CreateCase(u, cid, name, num, f, logOk)
    \/ \E u \in Users, id \in 1..MaxCases : GetCaseDetail(u, id)
    \/ \E u \in Users, id \in 1..MaxCases, types \in PortfolioCheckTypes :
            Screen(u, id, types)
    \/ \E u \in Users : ListCases(u, NoText, NoText, NULL)

SpecLink == Init /\ [][NextLink]_vars

\* the registry search on its own
NextSearch ==
    \E q \in Queries, outcome \in RegistryOutcomes, r1 \in HrbNumbers,
       r2 \in HrbNumbers : SearchHandelsregister(q, outcome, r1, r2)

SpecSearch == Init /\ [][NextSearch]_vars

\* advance_step requests on one case that overlap
NextSteps ==
    \/ \E u \in Users, num \in CaseNumbers :
            CreateCase(u, NULL, "Acme GmbH", num, "none", TRUE)
    \/ \E r \in StepRequests, u \in Users, id \in 1..MaxCases,
          step \in StepInputs \ {1}, status \in StepStatusInputs :
            ReadStep(r, u, id, step, status)
    \/ \E r \in StepRequests : WriteStep(r, TRUE)

SpecSteps == Init /\ [][NextSteps]_vars

\* create_case requests on pool clients, with a ROLLBACK that may fail
NextPool ==
    \/ \E conn \in Connections, u \in Users, num \in PortfolioCaseNumbers :
            BeginCreate(conn, u, NULL, NoText, num)
    \/ \E conn \in Connections, f \in {"none", "checks", "rollback"} :
            FinishCreate(conn, f, FALSE)
    \/ \E u \in Users : ListCases(u, NoText, NoText, NULL)

SpecPool == Init /\ [][NextPool]_vars

\* searches in flight; the call of a search that waits settles, at the
\* latest when the timeout of axios fires
NextPending ==
    \/ \E r \in SearchRequests, q \in {"ab", "abc"} : StartSearch(r, q)
    \/ \E r \in SearchRequests, outcome \in SettleOutcomes, r1 \in HrbNumbers :
            SettleSearch(r, outcome, r1, r1)

SpecPending ==
    /\ Init
    /\ [][NextPending]_vars
    /\ \A r \in SearchRequests :
          WF_vars(\E outcome \in SettleOutcomes, r1 \in HrbNumbers :
                      SettleSearch(r, outcome, r1, r1))

\* ================================================================ claims
\* the case row a successful create or step response is about
Created == resp.op = "create" /\ resp.code = 200

\* the compliance_checks rows of case c with check_type t
ChecksOfType(c, t) == {k \in DOMAIN checks : checks[k].case_id = c /\ checks[k].check_type = t}

\* C1: after every successful create_case the persisted case has a non-null
\* linked company that exists, and exactly one ComplianceCheck row for each of
\* pep, sanctions and adverse_media.
C1_CreatedCaseHasCompanyAndChecks ==
    Created =>
        /\ cases[resp.id].company_id # NULL
        /\ cases[resp.id].company_id \in DOMAIN companies
        /\ \A t \in SupportedCheckTypes : Cardinality(ChecksOfType(resp.id, t)) = 1

\* C2: the case create_case returns has status "pending", current_step 1 and
\* an empty steps_completed, and its ComplianceCheck rows are all "pending".
C2_CreatedCaseStartsEmpty ==
    Created =>
        \A row \in resp.body :
            /\ row.status = "pending"
            /\ row.current_step = 1
            /\ row.steps_completed = <<>>
            /\ \A k \in DOMAIN checks :
                  checks[k].case_id = row.id => checks[k].status = "pending"

Owns(u, caseId) == caseId \in DOMAIN cases /\ cases[caseId].user_id = u

\* C4: after any sequence of advance_step(case, s, "completed") calls
\* steps_completed contains s exactly once; no step occurs twice in any
\* steps_completed.
C4_StepCompletedOnce ==
    /\ \A c \in DOMAIN cases : \A x \in Range(cases[c].steps_completed) :
          Count(cases[c].steps_completed, x) = 1
    /\ \A i \in DOMAIN activity_log :
          ( /\ activity_log[i].action = "CASE_STEP_UPDATED"
            /\ activity_log[i].new_values.status = "completed" )
          => Count(cases[activity_log[i].entity_id].steps_completed,
                   activity_log[i].new_values.step) = 1

\* the same step of one case was completed by two requests
C4_Witness ==
    \E i, j \in DOMAIN activity_log :
        /\ i < j
        /\ activity_log[i].action = "CASE_STEP_UPDATED"
        /\ activity_log[j].action = "CASE_STEP_UPDATED"
        /\ activity_log[i].entity_id = activity_log[j].entity_id
        /\ activity_log[i].new_values = activity_log[j].new_values
        /\ activity_log[i].new_values.status = "completed"

\* C5: after a successful advance_step(case, s, status) the case's
\* current_step is s, whatever it was before and whatever status is passed.
C5_CurrentStepIsRequestedStep ==
    [][(resp'.op = "step" /\ resp'.code = 200) =>
         \A step \in StepInputs, status \in StepStatusInputs, logOk \in LogOutcomes :
            AdvanceStep(cases[resp'.id].user_id, resp'.id, step, status, logOk)
            => /\ cases'[resp'.id].current_step = step
               /\ \A row \in resp'.body : row.current_step = step
      ]_vars

\* a step request moved a case back from step 7 to step 3
C5_Witness ==
    /\ resp.op = "step" /\ resp.code = 200
    /\ cases[resp.id].current_step = 3
    /\ 7 \in DOMAIN cases[resp.id].step_status

\* C6: an advance_step or set_status call whose (case_id, owner) pair matches
\* no case answers 404 and leaves every case row as it was.
C6_NoMatchIsNotFound ==
    [][resp'.op \in {"step", "status"} =>
         \A u \in Users :
            ( /\ ~Owns(u, resp'.id)
              /\ \/ /\ resp'.op = "step"
                    /\ \E step \in StepInputs, status \in StepStatusInputs,
                          logOk \in LogOutcomes :
                          AdvanceStep(u, resp'.id, step, status, logOk)
                 \/ /\ resp'.op = "status"
                    /\ \E sr \in StatusInputs : SetStatus(u, resp'.id, sr[1], sr[2]) )
            => resp'.code = 404 /\ cases' = cases
      ]_vars

\* a step request for an existing case was answered 404: its sender is not
\* the owner
C6_Witness == resp.op = "step" /\ resp.code = 404 /\ resp.id \in DOMAIN cases

\* C7: get_case_detail for a case of another user answers 404 without any
\* data, exactly as it answers for an id no case has.
C7_DetailHidesForeignCase ==
    \A c \in DOMAIN cases : \A u \in Users \ {cases[c].user_id} :
        /\ DetailResponse(u, c).code = 404
        /\ DetailResponse(u, c).body = {}
        /\ [DetailResponse(u, c) EXCEPT !.id = NULL]
             = [DetailResponse(u, NextId(cases)) EXCEPT !.id = NULL]

\* a detail request for an existing case was answered 404
C7_Witness == resp.op = "detail" /\ resp.code = 404 /\ resp.id \in DOMAIN cases

\* C8: every case's steps_completed is a subset of {1..6}.
C8_StepsCompletedWithinStages ==
    \A c \in DOMAIN cases : Range(cases[c].steps_completed) \subseteq Stages

\* C9: every case's current_step is within {1..6}; a step request with a step
\* outside {1..6} is rejected and does not change the case.
C9_CurrentStepWithinStages ==
    \A c \in DOMAIN cases : cases[c].current_step \in Stages

\* C10: each case has exactly one ComplianceCheck row per check type, also
\* after run_check: a re-run updates the row and inserts no second one.
C10_OneCheckPerTypePerCase ==
    \A c \in DOMAIN cases : \A t \in SupportedCheckTypes :
        Cardinality(ChecksOfType(c, t)) = 1

\* C11: after a successful run_check on a case, for every requested type of
\* pep, sanctions and adverse_media the stub that create_case made is "clear":
\* no row of that case with that check_type is still "pending".
C11_ScreenClearsStub ==
    (resp.op = "screen" /\ resp.code = 200) =>
        \A row \in resp.body :
            row.check_type \in SupportedCheckTypes =>
                \A k \in ChecksOfType(resp.id, row.check_type) :
                    checks[k].status = "clear"

\* C12: run_check with a check_type outside pep, sanctions and adverse_media
\* persists no ComplianceCheck row: every row has a supported check_type.
C12_UnknownTypePersistsNothing ==
    \A k \in DOMAIN checks : checks[k].check_type \in SupportedCheckTypes

\* the request of a search answered with a result is the last entry of
\* registry_calls
LastCall == registry_calls[Len(registry_calls)]

\* C13: a search without a query or with a query of fewer than 3 characters
\* is answered with a validation error (400) and no candidate, and sends no
\* request to the external registry.
C13_ShortQueryRejected ==
    [][\A q \in {x \in Queries : x = NoText \/ Len(x) < 3},
          outcome \in RegistryOutcomes, r \in HrbNumbers :
            SearchHandelsregister(q, outcome, r, r) =>
                /\ resp'.code = 400
                /\ resp'.body = {}
                /\ registry_calls' = registry_calls
      ]_vars

\* a short query was rejected after an earlier search had called the registry
C13_Witness == resp.op = "search" /\ resp.code = 400 /\ registry_calls # <<>>

\* C14: when the registry was asked (query of 3 or more characters) and it
\* failed, timed out or answered with an empty or non-array result, the search
\* is answered 200 with exactly one candidate, tagged source = "demo".
C14_RegistryFailureGivesDemo ==
    [][(resp'.op = "search" /\ Len(registry_calls') > Len(registry_calls)) =>
         LET call == registry_calls'[Len(registry_calls')]
         IN  /\ Len(call.q) >= 3
             /\ ( \/ call.reply.kind \in {"error", "timeout", "null", "object"}
                  \/ call.reply.items = <<>> )
                => /\ resp'.code = 200
                   /\ resp'.body # {}
                   /\ \A b \in resp'.body :
                         /\ b.success
                         /\ b.source = "demo"
                         /\ Len(b.results) = 1
                         /\ b.results[1].source = "demo"
      ]_vars

\* the registry answered a search with an empty array
C14_Witness ==
    /\ resp.op = "search" /\ resp.code = 200
    /\ registry_calls # <<>>
    /\ LastCall.reply = [kind |-> "array", items |-> <<>>]

\* the overview object get_overview answers owner u with
OverviewOf(u) == CHOOSE o \in OverviewResponse(u).body : TRUE

\* the cases of owner u
CasesOf(u) == {c \in DOMAIN cases : cases[c].user_id = u}

\* C15: for an owner without cases get_overview answers completion rate 0
\* and 0 for total, active, pending and completed cases, pending checks and
\* high-risk cases.
C15_EmptyOverviewIsZero ==
    \A u \in Users :
        CasesOf(u) = {} =>
            /\ OverviewResponse(u).code = 200
            /\ OverviewOf(u).completionRate = 0
            /\ OverviewOf(u).totalCases = 0
            /\ OverviewOf(u).activeCases = Num(0)
            /\ OverviewOf(u).pendingCases = Num(0)
            /\ OverviewOf(u).completedCases = Num(0)
            /\ OverviewOf(u).pendingChecks = 0
            /\ OverviewOf(u).highRiskCases = 0

\* an owner without cases was answered while another owner has a case
C15_Witness ==
    /\ resp.op = "overview"
    /\ \E u \in Users : CasesOf(u) = {} /\ resp = OverviewResponse(u)
    /\ DOMAIN cases # {}

\* the pending compliance_checks rows whose case belongs to owner u
PendingOf(u) ==
    {k \in DOMAIN checks :
        /\ checks[k].status = "pending"
        /\ checks[k].case_id \in CasesOf(u)}

\* C16: the pending-check count of get_overview(owner) is the number of
\* pending ComplianceCheck rows whose case the owner owns, and a create_case
\* or run_check for a case of another owner leaves the owner's overview as
\* it was.
C16_OverviewScopedToOwner ==
    /\ [](\A u \in Users : OverviewOf(u).pendingChecks = Cardinality(PendingOf(u)))
    /\ [][\A u \in Users :
            ( \/ /\ resp'.op = "create"
                 /\ (resp'.code = 200 => cases'[resp'.id].user_id # u)
              \/ /\ resp'.op = "screen"
                 /\ resp'.id \in DOMAIN cases
                 /\ cases[resp'.id].user_id # u )
            => OverviewResponse(u)' = OverviewResponse(u)
        ]_vars

\* both owners have pending checks and one of them was answered with its own
\* three
C16_Witness ==
    /\ resp.op = "overview"
    /\ \A u \in Users : Cardinality(PendingOf(u)) = 3
    /\ \A o \in resp.body : o.pendingChecks = 3

\* the rows list_cases answers owner u with
RowsOf(u, status, risk, limit) ==
    CHOOSE rows \in ListResponse(u, status, risk, limit).body : TRUE

\* C17: list_cases(owner, filters, limit) answers only with cases of the
\* owner that match every given filter, newest first and none twice, at most
\* limit of them (50 without a limit), each with document_count and
\* ubo_count equal to the number of documents and UBOs of that case.
C17_ListScopedFilteredOrdered ==
    \A u \in Users, status \in StatusFilters, risk \in RiskFilters,
       limit \in LimitInputs :
        LET rows == RowsOf(u, status, risk, limit)
        IN  /\ ListResponse(u, status, risk, limit).code = 200
            /\ Len(rows) <= IF limit = NULL THEN 50 ELSE limit
            /\ \A i \in DOMAIN rows :
                  /\ rows[i].id \in DOMAIN cases
                  /\ rows[i].user_id = u
                  /\ status # NoText => rows[i].status = status
                  /\ risk # NoText => rows[i].risk_level = risk
                  /\ ParseInt(rows[i].document_count) =
                        Cardinality({d \in DOMAIN documents :
                                        documents[d].case_id = rows[i].id})
                  /\ ParseInt(rows[i].ubo_count) =
                        Cardinality({b \in DOMAIN ubos : ubos[b].case_id = rows[i].id})
            /\ \A i, j \in DOMAIN rows :
                  i < j => CreatedAt(rows[i].id) > CreatedAt(rows[j].id)

\* an owner of two cases asked for one active case and got the newer one,
\* which has a document
C17_Witness ==
    /\ resp.op = "list"
    /\ \E rows \in resp.body :
          /\ Len(rows) = 1
          /\ rows[1].status = "active"
          /\ ParseInt(rows[1].document_count) = 1
          /\ rows[1].id = 2
          /\ \A c \in CasesOf(rows[1].user_id) : cases[c].status = "active"
          /\ Cardinality(CasesOf(rows[1].user_id)) = 2

\* C18: a set_status of the owner sets the status to the given value; it
\* stamps completed_at when the value is "completed" and leaves completed_at
\* as it was for every other value.
C18_StatusSetAndStampedIfCompleted ==
    [][(resp'.op = "status" /\ resp'.code = 200) =>
         \A sr \in PortfolioStatusInputs :
            SetStatus(cases[resp'.id].user_id, resp'.id, sr[1], sr[2]) =>
                /\ cases'[resp'.id].status = sr[1]
                /\ sr[1] = "completed" => cases'[resp'.id].completed_at
                /\ sr[1] # "completed" =>
                      cases'[resp'.id].completed_at = cases[resp'.id].completed_at
      ]_vars

\* a completed case was rejected afterwards and kept its completed_at
C18_Witness ==
    /\ resp.op = "status" /\ resp.code = 200
    /\ cases[resp.id].status = "rejected"
    /\ cases[resp.id].completed_at

\* C19: set_status with the status and reason of the call before succeeds
\* again and leaves status and rejection reason as the first call left them.
C19_SetStatusIdempotent ==
    [][(resp'.op = "status" /\ resp'.code = 200) =>
         \A sr \in PortfolioStatusInputs :
            SetStatus(cases[resp'.id].user_id, resp'.id, sr[1], sr[2]) =>
                LET again == UpdateStatus(cases'[resp'.id], sr[1], sr[2])
                IN  /\ SelectCaseForStatus(cases', resp'.id,
                                           cases[resp'.id].user_id) # {}
                    /\ again.status = cases'[resp'.id].status
                    /\ again.rejection_reason = cases'[resp'.id].rejection_reason
      ]_vars

\* a case was rejected with a reason: the call that follows with the same
\* status and reason finds it so
C19_Witness ==
    /\ resp.op = "status" /\ resp.code = 200
    /\ cases[resp.id].status = "rejected"
    /\ cases[resp.id].rejection_reason = "incomplete"
    /\ ~cases[resp.id].completed_at

\* C20: no two cases share a case_number, also when create_case requests
\* overlap, and no step changes the case_number of an existing case or
\* removes the case.
C20_CaseNumberUniqueAndImmutable ==
    /\ [](\A c, d \in DOMAIN cases :
            c # d => cases[c].case_number # cases[d].case_number)
    /\ [][\A c \in DOMAIN cases :
            /\ c \in DOMAIN cases'
            /\ cases'[c].case_number = cases[c].case_number
        ]_vars

\* a create_case was answered 500 because its case_number is taken, while
\* another create_case is still open
C20_Witness ==
    /\ resp.op = "create" /\ resp.code = 500
    /\ resp.body = {[error |-> "unique_violation"]}
    /\ DOMAIN open_tx # {}

\* C22: get_case_detail, answered with the case or with 404, changes no row
\* of companies, kyc_cases, compliance_checks, documents, ubos or the
\* activity log.
C22_DetailIsPureRead ==
    [][\A u \in Users, id \in 1..MaxCases :
            GetCaseDetail(u, id) =>
                <<companies, cases, checks, documents, ubos, activity_log>>'
                    = <<companies, cases, checks, documents, ubos, activity_log>>
      ]_vars

\* the owner was shown a case whose creation is in the activity log
C22_Witness ==
    /\ resp.op = "detail" /\ resp.code = 200
    /\ \E i \in DOMAIN activity_log : activity_log[i].entity_id = resp.id

\* C26: in the result of get_case_detail the id, owner, status and
\* risk_level are those of the case row, with a linked company or without.
C26_DetailKeepsCaseFields ==
    \A c \in DOMAIN cases :
        \A d \in DetailResponse(cases[c].user_id, c).body :
            /\ d.caseData.id = cases[c].id
            /\ d.caseData.user_id = cases[c].user_id
            /\ d.caseData.status = cases[c].status
            /\ d.caseData.risk_level = cases[c].risk_level

\* C27: the linked company of a case, when there is one, belongs to the
\* owner of the case.
C27_LinkedCompanyHasSameOwner ==
    \A c \in DOMAIN cases :
        cases[c].company_id \in DOMAIN companies =>
            companies[cases[c].company_id].user_id = cases[c].user_id

\* C28: a run_check sent by a user for a case of another user leaves the
\* compliance_checks table as it was.
C28_ForeignScreenWritesNothing ==
    [][\A u \in Users, types \in PortfolioCheckTypes :
            (Screen(u, resp'.id, types) /\ resp'.id \in DOMAIN cases
                /\ cases[resp'.id].user_id # u)
            => checks' = checks
      ]_vars

\* C29: set_status leaves current_step, steps_completed and step_status of
\* the case as they were, advance_step leaves status, rejection_reason and
\* completed_at as they were, and neither changes the owner, the linked
\* company, another case or a compliance check.
C29_StepAndStatusDisjoint ==
    [][(resp'.op \in {"step", "status"} /\ resp'.code = 200
            /\ resp'.id \in DOMAIN cases) =>
         LET old == cases[resp'.id]
             new == cases'[resp'.id]
         IN  /\ resp'.op = "status" =>
                   /\ new.current_step = old.current_step
                   /\ new.steps_completed = old.steps_completed
                   /\ new.step_status = old.step_status
             /\ resp'.op = "step" =>
                   /\ new.status = old.status
                   /\ new.rejection_reason = old.rejection_reason
                   /\ new.completed_at = old.completed_at
             /\ new.user_id = old.user_id
             /\ new.company_id = old.company_id
             /\ new.case_number = old.case_number
             /\ \A c \in DOMAIN cases \ {resp'.id} : cases'[c] = cases[c]
             /\ checks' = checks
             /\ companies' = companies
      ]_vars

\* a step of a completed case was advanced and the case is still completed
C29_Witness ==
    /\ resp.op = "step" /\ resp.code = 200
    /\ cases[resp.id].status = "completed"
    /\ cases[resp.id].completed_at
    /\ cases[resp.id].current_step = 3

\* C30: every CASE_CREATED entry is about a committed case; a create_case
\* answered with an error writes no entry and no row; and a create_case that
\* commits is answered 200 with the case whether the entry was written or
\* not.
C30_LogOnlyAfterCommit ==
    /\ [](\A i \in DOMAIN activity_log :
            activity_log[i].action = "CASE_CREATED" =>
                /\ activity_log[i].entity_id \in DOMAIN cases
                /\ cases[activity_log[i].entity_id].case_number
                      = activity_log[i].new_values.caseNumber
                /\ cases[activity_log[i].entity_id].user_id = activity_log[i].user_id)
    /\ [][resp'.op = "create" =>
            /\ resp'.code # 200 => activity_log' = activity_log /\ cases' = cases
            /\ cases' # cases =>
                  /\ resp'.code = 200
                  /\ resp'.id \in DOMAIN cases' \ DOMAIN cases
                  /\ resp'.body = {cases'[resp'.id]}
                  /\ activity_log' \in
                        {activity_log,
                         Append(activity_log,
                                [user_id |-> cases'[resp'.id].user_id,
                                 action |-> "CASE_CREATED",
                                 entity_id |-> resp'.id,
                                 new_values |->
                                     [caseNumber |-> cases'[resp'.id].case_number,
                                      companyId |-> cases'[resp'.id].company_id]])}
        ]_vars

\* a create_case was answered with its case although no entry was written
C30_Witness ==
    /\ resp.op = "create" /\ resp.code = 200
    /\ resp.id \in DOMAIN cases
    /\ \A i \in DOMAIN activity_log : activity_log[i].entity_id # resp.id

\* the advance_step requests whose UPDATE runs in this step
Writes(r) == r \in DOMAIN open_step /\ r \notin DOMAIN open_step'

\* the CASE_STEP_UPDATED entries of case c that report step n as completed
StepEntries(c, n) ==
    {i \in DOMAIN activity_log :
        /\ activity_log[i].action = "CASE_STEP_UPDATED"
        /\ activity_log[i].entity_id = c
        /\ activity_log[i].new_values = [step |-> n, status |-> "completed"]}

\* C21: of advance_step requests on one case that overlap, each is answered
\* 200, and after the UPDATE of a request the case's current_step,
\* steps_completed and step_status are the values that request computed from
\* its own SELECT, whatever another request wrote in between; nothing but
\* such an UPDATE changes the three fields.
C21_LastUpdateWins ==
    [][/\ \A r \in StepRequests :
            Writes(r) =>
                LET req == open_step[r]
                    row == cases'[req.case_id]
                IN  /\ resp' = [op |-> "step", id |-> req.case_id, code |-> 200,
                                body |-> {row}]
                    /\ row.current_step = req.step
                    /\ row.steps_completed =
                          IF req.status = "completed" /\ req.step \notin Range(req.steps)
                          THEN Append(req.steps, req.step)
                          ELSE req.steps
                    /\ row.step_status = Put(req.stepStatus, req.step, req.status)
       /\ \A c \in DOMAIN cases :
            \/ /\ cases'[c].current_step = cases[c].current_step
               /\ cases'[c].steps_completed = cases[c].steps_completed
               /\ cases'[c].step_status = cases[c].step_status
            \/ \E r \in StepRequests : Writes(r) /\ open_step[r].case_id = c
      ]_vars

\* two requests completed steps 3 and 7 of one case, both were answered and
\* logged, and the case holds the values of the second alone
C21_Witness ==
    /\ resp.op = "step" /\ resp.code = 200
    /\ resp.id \in DOMAIN cases
    /\ StepEntries(resp.id, 3) # {}
    /\ StepEntries(resp.id, 7) # {}
    /\ cases[resp.id].current_step = 7
    /\ cases[resp.id].steps_completed = <<1, 7>>
    /\ 3 \notin DOMAIN cases[resp.id].step_status

\* C25: no step of the program removes an entry from a case's
\* steps_completed, also when advance_step requests for different steps run
\* their SELECTs before either UPDATE.
C25_StepsCompletedOnlyGrows ==
    [][\A c \in DOMAIN cases :
          Range(cases[c].steps_completed) \subseteq Range(cases'[c].steps_completed)
      ]_vars

\* C24: a pool client that create_case acquired and that holds no open
\* transaction any more was released exactly once, whichever way the handler
\* was left (COMMIT, ROLLBACK, or a ROLLBACK that threw); a client whose
\* transaction is open was not released.
C24_ClientReleasedOnce ==
    /\ DOMAIN open_tx \subseteq DOMAIN clients
    /\ \A conn \in DOMAIN clients :
          clients[conn].releases = IF conn \in DOMAIN open_tx THEN 0 ELSE 1

\* a request whose ROLLBACK threw has given its client back once
C24_Witness ==
    \E conn \in DOMAIN clients :
        /\ conn \notin DOMAIN open_tx
        /\ clients[conn].rollback = "failed"
        /\ clients[conn].releases = 1

\* the search requests waiting for the registry, and those answered
Waiting(r) == r \in DOMAIN searches /\ ~searches[r].settled
Answered(r) == r \in DOMAIN searches /\ searches[r].settled /\ searches[r].replies = 1

\* C23: a search with a valid query that waits for the registry is
\* eventually answered; a search has no response while it waits and exactly
\* one once its call has settled; and a call that ends in the timeout is
\* answered 200 with the demo entry made from the query.
C23_SearchAnsweredOnce ==
    /\ [](\A r \in DOMAIN searches :
            searches[r].replies = IF searches[r].settled THEN 1 ELSE 0)
    /\ [][\A r \in SearchRequests :
            Waiting(r) /\ ~Waiting(r)' =>
                LET call == registry_calls'[Len(registry_calls')]
                IN  /\ resp'.op = "search" /\ resp'.code = 200
                    /\ call.q = searches[r].q
                    /\ call.reply.kind = "timeout" =>
                          \A b \in resp'.body :
                              /\ b.source = "demo" /\ b.count = 1
                              /\ b.results[1].name = searches[r].q
                              /\ b.results[1].source = "demo"
        ]_vars
    /\ \A r \in SearchRequests : Waiting(r) ~> Answered(r)

\* a search whose call timed out was answered with the demo entry
C23_Witness ==
    /\ \E r \in SearchRequests : Answered(r)
    /\ registry_calls # <<>>
    /\ registry_calls[Len(registry_calls)].reply.kind = "timeout"
    /\ resp.op = "search" /\ resp.code = 200
    /\ \E b \in resp.body : b.source = "demo"

====
